---- MODULE Spec2Model ----
(***************************************************************************)
(* Model of lead-inspector (src/src/main.rs): one run of `main`, from the  *)
(* first RPC call to the end of the block reporting loop.                  *)
(*                                                                         *)
(* The program is sequential; every action below is one suspension point   *)
(* (an awaited RPC/HTTP call) or one branch of the loops of `main`,        *)
(* together with the straight-line code that follows it.  `pc` is the      *)
(* position in `main`.  `log` records, in program order, every RPC/HTTP    *)
(* call issued and every line printed.                                     *)
(***************************************************************************)
EXTENDS Integers, Sequences, FiniteSets, TLC

VARIABLES pc, args_epoch, epoch_info, current_slot, epoch_first_slot,
          leader_schedule, slot_validator_map, our_absolute_slots, blocks,
          bi, si, non_produced_slots, log

vars == <<pc, args_epoch, epoch_info, current_slot, epoch_first_slot,
          leader_schedule, slot_validator_map, our_absolute_slots, blocks,
          bi, si, non_produced_slots, log>>

-----------------------------------------------------------------------------
(* Bounds of the model *)

\* u64 / i64 are modelled with IntBits bits instead of 64
IntBits == 6
\* slots_in_epoch returned by the RPC node in a full run
SlotsInEpoch == 4
\* largest current epoch returned by the RPC node
MaxEpoch == 1
\* the grouping loop is checked on all sorted duplicate-free lists over 0..MaxSlot
MaxSlot == 7

-----------------------------------------------------------------------------
(* Values *)

\* args.validator
Target == "V1"
\* identities that can lead a slot
Identities == {"V1", "V2"}
None == "None"

Pow2(n) == 2 ^ n
U64Mod == Pow2(IntBits)
I64Min == 0 - Pow2(IntBits - 1)
I64Max == Pow2(IntBits - 1) - 1

Max0(x) == IF x < 0 THEN 0 ELSE x
Last(s) == s[Len(s)]
Range(s) == {s[i] : i \in 1..Len(s)}

\* `x as i64` for a u64 x: reinterpretation of the bits
AsI64(x) == IF x > I64Max THEN x - U64Mod ELSE x
\* the i64 that a wrapping (release build) operation leaves for the exact result x
WrapI64(x) == ((x - I64Min) % U64Mod) + I64Min
\* the u64 that a wrapping (release build) operation leaves for the exact result x
WrapU64(x) == x % U64Mod
FitsI64(x) == x >= I64Min /\ x <= I64Max
FitsU64(x) == x >= 0 /\ x < U64Mod

\* an outcome of an arithmetic expression: a value, or a panic (debug build overflow check)
Val(v) == [panic |-> FALSE, val |-> v]
Panic == [panic |-> TRUE, val |-> 0]

-----------------------------------------------------------------------------
(* main.rs 51-63: the first absolute slot of the requested epoch *)

\* the checked/wrapping outcome of an i64 operation whose exact result is x
OutI64(x) == IF FitsI64(x) THEN {Val(x)} ELSE {Panic, Val(WrapI64(x))}
\* the checked/wrapping outcome of a u64 operation whose exact result is x
OutU64(x) == IF FitsU64(x) THEN {Val(x)} ELSE {Panic, Val(WrapU64(x))}

\* main.rs 60: (epoch as i64 - current_epoch as i64) * slots_per_epoch as i64
SlotsBetweenEpochs(epoch, info) ==
    UNION { IF d.panic THEN {Panic} ELSE OutI64(d.val * AsI64(info.slots_in_epoch)) :
              d \in OutI64(AsI64(epoch) - AsI64(info.epoch)) }

\* main.rs 61-62: (absolute_slot as i64 - slot_index as i64 + slots_between_epochs).max(0) as u64
OtherEpochFirstSlot(epoch, info) ==
    UNION { IF b.panic \/ a.panic
            THEN {Panic}
            ELSE { IF s.panic THEN Panic ELSE Val(Max0(s.val)) : s \in OutI64(a.val + b.val) } :
              b \in SlotsBetweenEpochs(epoch, info),
              a \in OutI64(AsI64(info.absolute_slot) - AsI64(info.slot_index)) }

\* main.rs 52-63
EpochFirstSlot(epoch, info) ==
    IF epoch = info.epoch
    THEN OutU64(info.absolute_slot - info.slot_index)
    ELSE OtherEpochFirstSlot(epoch, info)

\* main.rs 46: args.epoch.unwrap_or(current_epoch); the absent option is -1
RequestedEpoch(arg, info) == IF arg = -1 THEN info.epoch ELSE arg

-----------------------------------------------------------------------------
(* main.rs 81-123: target slots, global index, sort and grouping *)

\* faulty variant: an absent key is read as an empty slot list
OurSlotsDefaultEmpty(schedule, validator) ==
    IF validator \in DOMAIN schedule
    THEN [some |-> TRUE, slots |-> schedule[validator]]
    ELSE [some |-> TRUE, slots |-> <<>>]

\* main.rs 82: leader_schedule.get(validator_pubkey_str); None when the key is absent
OurSlots(schedule, validator) ==
    IF validator \in DOMAIN schedule
    THEN [some |-> TRUE, slots |-> schedule[validator]]
    ELSE [some |-> FALSE, slots |-> <<>>]

\* main.rs 94-100: BTreeMap from absolute slot to the identity scheduled there
SlotValidatorMap(schedule, first) ==
    LET at(v) == { first + schedule[v][i] : i \in 1..Len(schedule[v]) }
    IN  [ s \in UNION { at(v) : v \in DOMAIN schedule } |->
            CHOOSE v \in DOMAIN schedule : s \in at(v) ]

\* main.rs 103-106: our slots as absolute slots, in the order of the schedule
AbsoluteSlots(slots, first) == [ i \in 1..Len(slots) |-> first + slots[i] ]

RECURSIVE Insert(_, _)
Insert(x, sorted) ==
    IF sorted = <<>> THEN <<x>>
    ELSE IF x <= Head(sorted) THEN <<x>> \o sorted
    ELSE <<Head(sorted)>> \o Insert(x, Tail(sorted))

\* faulty variant: the slots stay in the order of the schedule
SortUnstableNoSort(s) == s

RECURSIVE SortUnstable(_)
\* main.rs 109: our_absolute_slots.sort_unstable()
SortUnstable(s) == IF s = <<>> THEN <<>> ELSE Insert(Head(s), SortUnstable(Tail(s)))

\* main.rs 118: the size at which a block is closed
BlockCap == 4

\* faulty variant: the block is closed one slot too late
ClosesBlockLateCap(slots, i, block) ==
    \/ i = Len(slots)
    \/ slots[i + 1] # slots[i] + 1
    \/ Len(block) = BlockCap + 1

\* main.rs 116-118: the block is closed after slots[i]
ClosesBlock(slots, i, block) ==
    \/ i = Len(slots)
    \/ slots[i + 1] # slots[i] + 1
    \/ Len(block) = BlockCap

RECURSIVE GroupLoop(_, _, _, _)
\* main.rs 114-123: one iteration of the grouping loop at index i (1-based)
GroupLoop(slots, i, block, acc) ==
    IF i > Len(slots) THEN acc
    ELSE LET pushed == Append(block, slots[i])
         IN  IF ClosesBlock(slots, i, pushed)
             THEN GroupLoop(slots, i + 1, <<>>, Append(acc, pushed))
             ELSE GroupLoop(slots, i + 1, pushed, acc)

\* main.rs 112-123
Group(slots) == GroupLoop(slots, 1, <<>>, <<>>)

-----------------------------------------------------------------------------
(* main.rs 146-301: per-slot classification and neighbour lookup *)

\* faulty variant: the slot right after the current one is checked too
IsFutureSlotOffByOne(slot, current) == slot > current + 1

\* main.rs 153: a slot that is skipped without any check
IsFutureSlot(slot, current) == slot > current

\* faulty variant: a produced slot without leader info counts as produced by us
ClassifyLeaderlessAsOurs(slot, produced, leaders, validator) ==
    IF produced
    THEN IF leaders # <<>> /\ leaders[1] # validator
         THEN << [slot |-> slot, leader |-> leaders[1]] >>
         ELSE << >>
    ELSE << [slot |-> slot, leader |-> None] >>

\* main.rs 159-177: the entry pushed to non_produced_slots, as a sequence of
\* zero or one entries.  produced: is_slot_produced; leaders: get_slot_leaders(slot, 1)
Classify(slot, produced, leaders, validator) ==
    IF produced
    THEN IF leaders # <<>>
         THEN IF leaders[1] # validator
              THEN << [slot |-> slot, leader |-> leaders[1]] >>
              ELSE << >>
         ELSE << [slot |-> slot, leader |-> None] >>
    ELSE << [slot |-> slot, leader |-> None] >>

\* faulty variant: plain subtraction
PreviousSlotNoSaturate(first_slot) == first_slot - 1

\* main.rs 203: first_slot.saturating_sub(1)
PreviousSlot(first_slot) == IF first_slot = 0 THEN 0 ELSE first_slot - 1
\* main.rs 204: last_slot + 1
NextSlot(last_slot) == last_slot + 1

\* main.rs 205-206: slot_validator_map.get(&slot)
MapGet(map, slot) == IF slot \in DOMAIN map THEN map[slot] ELSE None

ToLower(id) == IF id = "V1" THEN "v1" ELSE IF id = "V2" THEN "v2" ELSE id

\* faulty variant: the comparison ignores case
IsBadValidatorIgnoreCase(bad_validators, prev_val) ==
    \E i \in 1..Len(bad_validators) :
        bad_validators[i] # None /\ ToLower(bad_validators[i]) = ToLower(prev_val)

\* main.rs 225-229: the previous leader is on the skip-blame list; an entry of the
\* list is the string of its identity_pubkey field, or None when it has no such string
IsBadValidator(bad_validators, prev_val) ==
    \E i \in 1..Len(bad_validators) :
        bad_validators[i] # None /\ bad_validators[i] = prev_val

\* main.rs 249: position of the first record whose nodeAddress is prev_val, 0 if none
FindRecord(records, prev_val) ==
    IF \E i \in 1..Len(records) : records[i].nodeAddress = prev_val
    THEN CHOOSE i \in 1..Len(records) :
            /\ records[i].nodeAddress = prev_val
            /\ \A j \in 1..(i - 1) : records[j].nodeAddress # prev_val
    ELSE 0
-----------------------------------------------------------------------------
(* The log: RPC/HTTP calls issued and lines printed, in program order.     *)
(* b is the 1-based index of the block being processed (0 before the loop) *)

\* id: the identity printed or returned; data: the list or pair printed or returned
Event(k, op, b, slot, slot2, id, ok, slots, data, rank) ==
    [k |-> k, op |-> op, b |-> b, slot |-> slot, slot2 |-> slot2, id |-> id,
     ok |-> ok, slots |-> slots, data |-> data, rank |-> rank]

\* an RPC or HTTP call about `slot` that completed (ok) or failed
Call(op, b, slot, ok) == Event("call", op, b, slot, -1, None, ok, <<>>, <<>>, 0)
\* a printed line
Line(op, b, slot, id) == Event("print", op, b, slot, -1, id, TRUE, <<>>, <<>>, 0)

\* faulty variant: the failed call is issued again
PropagateRetry(at) == at

\* the `?` operator / .context(..)? : the error leaves main
Propagate(at) == "error"

-----------------------------------------------------------------------------
(* Inputs: what the command line, the RPC node and the HTTP services return *)

\* args.epoch: absent (-1: the current epoch), or the previous or the next epoch
ArgEpochs == {-1, MaxEpoch - 1, MaxEpoch + 1}

\* get_epoch_info() of a chain whose epochs all have SlotsInEpoch slots, at the
\* second slot of epoch MaxEpoch
EpochInfos ==
    { [epoch |-> MaxEpoch, slot_index |-> i, slots_in_epoch |-> SlotsInEpoch,
       absolute_slot |-> MaxEpoch * SlotsInEpoch + i] : i \in {1} }

\* get_slot(), issued right after get_epoch_info()
CurrentSlots(info) == {info.absolute_slot}

RECURSIVE Ascending(_)
Ascending(S) ==
    IF S = {} THEN <<>>
    ELSE LET m == CHOOSE x \in S : \A y \in S : x <= y
         IN  <<m>> \o Ascending(S \ {m})

Reverse(s) == [ i \in 1..Len(s) |-> s[Len(s) + 1 - i] ]

\* the order in which the node lists the relative slots of an identity
Orders == {"asc", "desc"}
Arrange(s, ord) ==
    IF ord = "asc" \/ s = <<>> THEN s
    ELSE Reverse(s)

\* an assignment of each relative slot to one identity, or to none
Assignments == [0..(SlotsInEpoch - 1) -> Identities \cup {None}]

\* get_leader_schedule(): identity -> relative slot indices
ScheduleOf(a, ord) ==
    [ v \in {a[r] : r \in DOMAIN a} \ {None} |->
        Arrange(Ascending({r \in DOMAIN a : a[r] = v}), ord) ]

\* get_slot_leaders(slot, 1)
LeaderResults == {<<>>} \cup { <<v>> : v \in Identities }

\* the skip-blame JSON: has |-> data.validators is an array; validators |-> the
\* identity_pubkey string of each element (None: not a string)
SkipBlameResponses ==
    { [has |-> FALSE, validators |-> <<>>],
      [has |-> TRUE, validators |-> <<"v1", None, "v2">>],
      [has |-> TRUE, validators |-> <<"V2">>],
      [has |-> TRUE, validators |-> <<"V2", "V1">>] }

\* a record of the leaderboard; -1: the field is absent or not an unsigned integer
Record(a, t, v) == [nodeAddress |-> a, totalLatency |-> t, votedSlots |-> v]

\* the leaderboard JSON: has |-> records is an array
LatencyResponses ==
    { [has |-> FALSE, records |-> <<>>],
      [has |-> TRUE, records |-> << Record("v1", 7, 2), Record("V2", 100, 10) >>],
      [has |-> TRUE, records |-> << Record("V2", -1, 10), Record("V2", 100, 10),
                                    Record("V1", 100, -1) >>] }

-----------------------------------------------------------------------------
(* State after argument parsing (main.rs 28-36) *)

Init ==
    /\ pc = "epoch_info"
    /\ args_epoch \in ArgEpochs
    /\ epoch_info = [epoch |-> 0, slot_index |-> 0, slots_in_epoch |-> 0, absolute_slot |-> 0]
    /\ current_slot = 0
    /\ epoch_first_slot = 0
    /\ leader_schedule = << >>
    /\ slot_validator_map = << >>
    /\ our_absolute_slots = << >>
    /\ blocks = << >>
    /\ bi = 0
    /\ si = 0
    /\ non_produced_slots = << >>
    /\ log = << >>

\* main.rs 39-43
GetEpochInfo ==
    /\ pc = "epoch_info"
    /\ \/ /\ log' = Append(log, Call("get_epoch_info", 0, -1, FALSE))
          /\ pc' = Propagate(pc)
          /\ UNCHANGED epoch_info
       \/ \E info \in EpochInfos :
            /\ epoch_info' = info
            /\ log' = Append(log, Call("get_epoch_info", 0, -1, TRUE))
            /\ pc' = "get_slot"
    /\ UNCHANGED <<args_epoch, current_slot, epoch_first_slot, leader_schedule,
                   slot_validator_map, our_absolute_slots, blocks, bi, si,
                   non_produced_slots>>

\* main.rs 46-63
GetSlot ==
    /\ pc = "get_slot"
    /\ \/ /\ log' = Append(log, Call("get_slot", 0, -1, FALSE))
          /\ pc' = Propagate(pc)
          /\ UNCHANGED <<current_slot, epoch_first_slot>>
       \/ \E cs \in CurrentSlots(epoch_info) :
          \E o \in EpochFirstSlot(RequestedEpoch(args_epoch, epoch_info), epoch_info) :
            /\ current_slot' = cs
            /\ log' = log \o << Call("get_slot", 0, -1, TRUE),
                                Line("using_epoch", 0, RequestedEpoch(args_epoch, epoch_info), None) >>
            /\ IF o.panic
               THEN pc' = "panic" /\ UNCHANGED epoch_first_slot
               ELSE pc' = "leader_schedule" /\ epoch_first_slot' = o.val
    /\ UNCHANGED <<args_epoch, epoch_info, leader_schedule, slot_validator_map,
                   our_absolute_slots, blocks, bi, si, non_produced_slots>>

\* main.rs 66-123
GetLeaderSchedule ==
    /\ pc = "leader_schedule"
    /\ \/ /\ \E ok \in {"Err", "NoSchedule"} :
                log' = Append(log, Event("call", "get_leader_schedule", 0, epoch_first_slot,
                                         -1, ok, FALSE, <<>>, <<>>, 0))
          /\ pc' = Propagate(pc)
          /\ UNCHANGED <<leader_schedule, slot_validator_map, our_absolute_slots, blocks, bi>>
       \/ \E a \in Assignments, ord \in Orders :
            LET schedule == ScheduleOf(a, ord)
                ours == OurSlots(schedule, Target)
                sorted == SortUnstable(AbsoluteSlots(ours.slots, epoch_first_slot))
                call == Call("get_leader_schedule", 0, epoch_first_slot, TRUE)
            IN  /\ leader_schedule' = schedule
                /\ IF ~ours.some
                   THEN /\ log' = log \o <<call, Line("not_scheduled", 0, -1, Target)>>
                        /\ pc' = "not_scheduled"
                        /\ UNCHANGED <<slot_validator_map, our_absolute_slots, blocks, bi>>
                   ELSE /\ log' = log \o <<call, Line("assigned", 0, Len(ours.slots), Target)>>
                        /\ slot_validator_map' = SlotValidatorMap(schedule, epoch_first_slot)
                        /\ our_absolute_slots' = sorted
                        /\ blocks' = Group(sorted)
                        /\ bi' = 1
                        /\ pc' = "block_loop"
    /\ UNCHANGED <<args_epoch, epoch_info, current_slot, epoch_first_slot, si,
                   non_produced_slots>>
-----------------------------------------------------------------------------
(* The block loop, main.rs 146-301 *)

\* the block and the slot the loops are at
Block == blocks[bi]
Slot == Block[si]
first_slot == Block[1]
last_slot == Last(Block)
previous_slot == PreviousSlot(first_slot)
next_slot == NextSlot(last_slot)
\* main.rs 205: Some(prev_val)
HasPrevious == previous_slot \in DOMAIN slot_validator_map
prev_val == MapGet(slot_validator_map, previous_slot)

\* main.rs 208-209
HeaderLine == Event("print", "block", bi, first_slot, -1, None, TRUE, Block, <<>>, 0)

\* main.rs 281-299: the lines that end the report of a block
ReportTail ==
    << Event("print", "ours", bi, first_slot, last_slot, Target, TRUE, <<>>, <<>>, 0),
       IF next_slot \in DOMAIN slot_validator_map
       THEN Line("next", bi, next_slot, slot_validator_map[next_slot])
       ELSE Line("next_unknown", bi, next_slot, None) >>
    \o [ i \in 1..Len(non_produced_slots) |->
           Line("row", bi, non_produced_slots[i].slot, non_produced_slots[i].leader) ]

\* main.rs 146: the loop takes the next block
EnterBlock ==
    /\ pc = "block_loop"
    /\ bi <= Len(blocks)
    /\ non_produced_slots' = << >>
    /\ si' = 1
    /\ pc' = "slot_loop"
    /\ UNCHANGED <<args_epoch, epoch_info, current_slot, epoch_first_slot, leader_schedule,
                   slot_validator_map, our_absolute_slots, blocks, bi, log>>

\* main.rs 303-305: no block is left
Finish ==
    /\ pc = "block_loop"
    /\ bi > Len(blocks)
    /\ log' = Append(log, Line("done", 0, -1, None))
    /\ pc' = "done"
    /\ UNCHANGED <<args_epoch, epoch_info, current_slot, epoch_first_slot, leader_schedule,
                   slot_validator_map, our_absolute_slots, blocks, bi, si, non_produced_slots>>

\* main.rs 151-155
SkipFutureSlot ==
    /\ pc = "slot_loop"
    /\ si <= Len(Block)
    /\ IsFutureSlot(Slot, current_slot)
    /\ si' = si + 1
    /\ UNCHANGED <<pc, args_epoch, epoch_info, current_slot, epoch_first_slot, leader_schedule,
                   slot_validator_map, our_absolute_slots, blocks, bi, non_produced_slots, log>>

\* main.rs 156-159, 173-185 and 310-313
IsSlotProduced ==
    /\ pc = "slot_loop"
    /\ si <= Len(Block)
    /\ ~IsFutureSlot(Slot, current_slot)
    /\ \/ /\ log' = Append(log, Call("get_blocks", bi, Slot, FALSE))
          /\ pc' = Propagate(pc)
          /\ UNCHANGED <<si, non_produced_slots>>
       \/ \E produced \in BOOLEAN :
            /\ log' = Append(log, Event("call", "get_blocks", bi, Slot, -1,
                                        IF produced THEN "Block" ELSE "NoBlock",
                                        TRUE, <<>>, <<>>, 0))
            /\ IF produced
               THEN pc' = "get_slot_leaders" /\ UNCHANGED <<si, non_produced_slots>>
               ELSE /\ non_produced_slots' =
                          non_produced_slots \o Classify(Slot, FALSE, <<>>, Target)
                    /\ si' = si + 1
                    /\ pc' = "slot_loop"
    /\ UNCHANGED <<args_epoch, epoch_info, current_slot, epoch_first_slot, leader_schedule,
                   slot_validator_map, our_absolute_slots, blocks, bi>>

\* main.rs 160-172 and 179-185
GetSlotLeaders ==
    /\ pc = "get_slot_leaders"
    /\ \/ /\ log' = Append(log, Call("get_slot_leaders", bi, Slot, FALSE))
          /\ pc' = Propagate(pc)
          /\ UNCHANGED <<si, non_produced_slots>>
       \/ \E leaders \in LeaderResults :
            /\ log' = Append(log, Event("call", "get_slot_leaders", bi, Slot, -1,
                                        IF leaders = <<>> THEN None ELSE leaders[1],
                                        TRUE, <<>>, <<>>, 0))
            /\ non_produced_slots' = non_produced_slots \o Classify(Slot, TRUE, leaders, Target)
            /\ si' = si + 1
            /\ pc' = "slot_loop"
    /\ UNCHANGED <<args_epoch, epoch_info, current_slot, epoch_first_slot, leader_schedule,
                   slot_validator_map, our_absolute_slots, blocks, bi>>

\* main.rs 189: all slots of the block are produced by us, or future
EndBlockSilent ==
    /\ pc = "slot_loop"
    /\ si > Len(Block)
    /\ non_produced_slots = << >>
    /\ bi' = bi + 1
    /\ pc' = "block_loop"
    /\ UNCHANGED <<args_epoch, epoch_info, current_slot, epoch_first_slot, leader_schedule,
                   slot_validator_map, our_absolute_slots, blocks, si, non_produced_slots, log>>

\* main.rs 189-211 and 277-299: the report of a block starts
ReportBlock ==
    /\ pc = "slot_loop"
    /\ si > Len(Block)
    /\ non_produced_slots # << >>
    /\ IF HasPrevious
       THEN /\ log' = Append(log, HeaderLine)
            /\ pc' = "skip_blame"
            /\ UNCHANGED bi
       ELSE /\ log' = log \o <<HeaderLine, Line("prev_unknown", bi, previous_slot, None)>>
                          \o ReportTail
            /\ bi' = bi + 1
            /\ pc' = "block_loop"
    /\ UNCHANGED <<args_epoch, epoch_info, current_slot, epoch_first_slot, leader_schedule,
                   slot_validator_map, our_absolute_slots, blocks, si, non_produced_slots>>

\* main.rs 213-231 and 271-276, then 281-299
SkipBlameGet ==
    /\ pc = "skip_blame"
    /\ \/ /\ log' = Append(log, Call("skip_blame", bi, previous_slot, FALSE))
          /\ pc' = Propagate(pc)
          /\ UNCHANGED bi
       \/ \E json \in SkipBlameResponses :
            LET call == Event("call", "skip_blame", bi, previous_slot, -1,
                              IF json.has THEN "Validators" ELSE None,
                              TRUE, <<>>, json.validators, 0)
            IN  IF json.has
                THEN IF IsBadValidator(json.validators, prev_val)
                     THEN /\ log' = Append(log, call)
                          /\ pc' = "latency"
                          /\ UNCHANGED bi
                     ELSE /\ log' = log \o <<call, Line("prev", bi, previous_slot, prev_val)>>
                                        \o ReportTail
                          /\ bi' = bi + 1
                          /\ pc' = "block_loop"
                ELSE /\ log' = log \o <<call, Line("warning", bi, -1, None)>> \o ReportTail
                     /\ bi' = bi + 1
                     /\ pc' = "block_loop"
    /\ UNCHANGED <<args_epoch, epoch_info, current_slot, epoch_first_slot, leader_schedule,
                   slot_validator_map, our_absolute_slots, blocks, si, non_produced_slots>>

\* main.rs 260-267: the line of a previous leader that is on the list, if it is printed
BadLeaderLines(json) ==
    LET index == FindRecord(json.records, prev_val)
    IN  IF /\ json.has
           /\ index # 0
           /\ json.records[index].totalLatency # -1
           /\ json.records[index].votedSlots # -1
        THEN << Event("print", "prev_bad", bi, previous_slot, -1, prev_val, TRUE, <<>>,
                      <<json.records[index].totalLatency, json.records[index].votedSlots>>,
                      index) >>
        ELSE << >>

\* main.rs 232-270, then 281-299
LatencyPost ==
    /\ pc = "latency"
    /\ \/ /\ log' = Append(log, Call("latency", bi, previous_slot, FALSE))
          /\ pc' = Propagate(pc)
          /\ UNCHANGED bi
       \/ \E json \in LatencyResponses :
            /\ log' = log \o <<Call("latency", bi, previous_slot, TRUE)>>
                          \o BadLeaderLines(json) \o ReportTail
            /\ bi' = bi + 1
            /\ pc' = "block_loop"
    /\ UNCHANGED <<args_epoch, epoch_info, current_slot, epoch_first_slot, leader_schedule,
                   slot_validator_map, our_absolute_slots, blocks, si, non_produced_slots>>

Next ==
    \/ GetEpochInfo
    \/ GetSlot
    \/ GetLeaderSchedule
    \/ EnterBlock
    \/ SkipFutureSlot
    \/ IsSlotProduced
    \/ GetSlotLeaders
    \/ EndBlockSilent
    \/ ReportBlock
    \/ SkipBlameGet
    \/ LatencyPost
    \/ Finish

Spec == Init /\ [][Next]_vars
-----------------------------------------------------------------------------
(* Two further specifications: the grouping loop and the epoch arithmetic  *)
(* applied to inputs drawn from their whole (bounded) domain.              *)

Idle ==
    /\ leader_schedule = << >>
    /\ slot_validator_map = << >>
    /\ bi = 0
    /\ si = 0
    /\ non_produced_slots = << >>
    /\ log = << >>

\* the example of the specification, section 8
ExampleSlots == <<100, 101, 102, 103, 104, 200, 201>>

\* sorted duplicate-free lists of absolute slots
SortedLists == { Ascending(S) : S \in SUBSET (0..MaxSlot) } \cup {ExampleSlots}

InitGroup ==
    /\ pc = "group"
    /\ our_absolute_slots \in SortedLists
    /\ blocks = << >>
    /\ args_epoch = -1
    /\ epoch_info = [epoch |-> 0, slot_index |-> 0, slots_in_epoch |-> 0, absolute_slot |-> 0]
    /\ current_slot = 0
    /\ epoch_first_slot = 0
    /\ Idle

\* main.rs 112-123 applied to our_absolute_slots
GroupSlots ==
    /\ pc = "group"
    /\ blocks' = Group(our_absolute_slots)
    /\ pc' = "grouped"
    /\ UNCHANGED <<args_epoch, epoch_info, current_slot, epoch_first_slot, leader_schedule,
                   slot_validator_map, our_absolute_slots, bi, si, non_produced_slots, log>>

NextGroup == GroupSlots

SpecGroup == InitGroup /\ [][NextGroup]_vars

\* args.epoch: absent (-1) or any u64
AnyArgEpochs == -1..(U64Mod - 1)

\* get_epoch_info() of a chain at an epoch up to MaxEpoch, with up to SlotsInEpoch
\* slots per epoch, whose current epoch starts at a slot up to MaxEpoch * SlotsInEpoch
AnyEpochInfos ==
    UNION { { [epoch |-> e, slot_index |-> i, slots_in_epoch |-> n, absolute_slot |-> f + i] :
                e \in 0..MaxEpoch, f \in 0..(MaxEpoch * SlotsInEpoch), i \in 0..(n - 1) } :
            n \in 1..SlotsInEpoch }

InitEpoch ==
    /\ pc = "get_slot"
    /\ args_epoch \in AnyArgEpochs
    /\ epoch_info \in AnyEpochInfos
    /\ current_slot = 0
    /\ epoch_first_slot = 0
    /\ our_absolute_slots = << >>
    /\ blocks = << >>
    /\ Idle

\* main.rs 46-63 applied to args_epoch and epoch_info
ComputeEpochFirstSlot ==
    /\ pc = "get_slot"
    /\ \E o \in EpochFirstSlot(RequestedEpoch(args_epoch, epoch_info), epoch_info) :
         IF o.panic
         THEN pc' = "panic" /\ UNCHANGED epoch_first_slot
         ELSE pc' = "leader_schedule" /\ epoch_first_slot' = o.val
    /\ UNCHANGED <<args_epoch, epoch_info, current_slot, leader_schedule, slot_validator_map,
                   our_absolute_slots, blocks, bi, si, non_produced_slots, log>>

NextEpoch == ComputeEpochFirstSlot

SpecEpoch == InitEpoch /\ [][NextEpoch]_vars

-----------------------------------------------------------------------------
(* Properties *)

Calls(op) == { i \in 1..Len(log) : log[i].k = "call" /\ log[i].op = op }
Lines(op) == { i \in 1..Len(log) : log[i].k = "print" /\ log[i].op = op }
\* the run has got past get_slot(): current_slot is the value it returned
HasCurrentSlot == pc \notin {"epoch_info", "get_slot"}

\* C1 (as amended): a target slot greater than current_slot is never passed to the
\* block-existence check or to the slot-leader lookup, is never added to the
\* non-produced set and never gets a per-slot row; and the first slot of every
\* reported block is not greater than current_slot.
C1_FutureSlotsNeverChecked ==
    HasCurrentSlot =>
        /\ \A i \in Calls("get_blocks") \cup Calls("get_slot_leaders") \cup Lines("row") :
              log[i].slot <= current_slot
        /\ \A i \in 1..Len(non_produced_slots) : non_produced_slots[i].slot <= current_slot
        /\ \A i \in Lines("block") \cup Lines("ours") : log[i].slot <= current_slot

\* C1 witness: a block was reported whose later slots are future slots that were skipped
C1_Witness ==
    /\ pc = "done"
    /\ \E i \in Lines("block") :
         /\ \E s \in Range(log[i].slots) : s > current_slot
         /\ \E j \in Calls("get_blocks") : log[j].b = log[i].b

\* C1 as stated: no target slot greater than current_slot appears in any printed
\* line, the "Block of slots" line and the "Our Validator Slots" line included.
C1_Original ==
    HasCurrentSlot =>
        /\ C1_FutureSlotsNeverChecked
        /\ \A i \in Lines("block") : \A s \in Range(log[i].slots) : s <= current_slot
        /\ \A i \in Lines("ours") : log[i].slot2 <= current_slot

RECURSIVE Flatten(_)
Flatten(ss) == IF ss = <<>> THEN <<>> ELSE Head(ss) \o Flatten(Tail(ss))

RECURSIVE SumLen(_, _)
\* the number of slots in the first k blocks
SumLen(ss, k) == IF k = 0 THEN 0 ELSE Len(ss[k]) + SumLen(ss, k - 1)

\* the input positions after which a block ends
BlockEnds(ss) == { SumLen(ss, k) : k \in 1..Len(ss) }
\* the number of slots the block holding input position i holds up to i
HeldAt(ss, i) ==
    LET before == { e \in BlockEnds(ss) \cup {0} : e < i }
    IN  i - (CHOOSE e \in before : \A f \in before : f <= e)

\* C2: for a sorted duplicate-free list the grouping loop yields blocks that are
\* non-empty, of at most 4 slots and contiguous, whose concatenation is the
\* input, with a boundary after input[i] exactly when input[i+1] # input[i] + 1
\* or the block ending at input[i] holds 4 slots; and the example list yields
\* [[100,101,102,103],[104],[200,201]].
C2_Grouping ==
    pc = "grouped" =>
        LET input == our_absolute_slots
        IN  /\ \A k \in 1..Len(blocks) :
                  /\ Len(blocks[k]) >= 1
                  /\ Len(blocks[k]) <= 4
                  /\ \A j \in 2..Len(blocks[k]) : blocks[k][j] = blocks[k][j - 1] + 1
            /\ Flatten(blocks) = input
            /\ \A i \in 1..(Len(input) - 1) :
                  (i \in BlockEnds(blocks)) <=>
                      (input[i + 1] # input[i] + 1 \/ HeldAt(blocks, i) = 4)
            /\ input = ExampleSlots =>
                  blocks = << <<100, 101, 102, 103>>, <<104>>, <<200, 201>> >>

\* C2 witness: the example list (a run longer than 4 and a gap) has been grouped
C2_Witness ==
    /\ pc = "grouped"
    /\ our_absolute_slots = ExampleSlots
    /\ Len(blocks) = 3

\* the exact (unbounded integer) value of the formula of C5 for the inputs of the state
C5_Exact ==
    LET req == RequestedEpoch(args_epoch, epoch_info)
        base == epoch_info.absolute_slot - epoch_info.slot_index
    IN  IF req = epoch_info.epoch
        THEN base
        ELSE Max0(base + (req - epoch_info.epoch) * epoch_info.slots_in_epoch)

\* C5: the first slot of the requested epoch is absolute_slot - slot_index for the
\* current epoch and otherwise max(0, that + (requested - current) * slots_in_epoch),
\* never an error or a wrapped value, and it is non-decreasing in the requested
\* epoch (stated for every requested epoch whose exact value is a u64).
C5_Original ==
    (pc # "get_slot" /\ FitsU64(C5_Exact)) =>
        /\ pc = "leader_schedule"
        /\ epoch_first_slot = C5_Exact
        /\ (args_epoch >= 0 /\ args_epoch + 1 < U64Mod) =>
              \A o \in EpochFirstSlot(args_epoch + 1, epoch_info) :
                  ~o.panic /\ o.val >= epoch_first_slot

\* nothing has been called or printed for a block the loop has not entered
NothingAhead == \A i \in 1..Len(log) : log[i].b <= bi
\* the blocks the loop has entered
BlockIds == 1..(IF bi <= Len(blocks) THEN bi ELSE Len(blocks))
\* the report of block b has been printed to its last line
ReportDone(b) == b < bi
Header(b) == { i \in Lines("block") : log[i].b = b }

\* the outcome of the check that starts with the get_blocks call log[i], from what
\* the node answered: the entry the slot adds to the non-produced set, if any
ChainOutcome(i) ==
    IF ~log[i].ok THEN << >>
    ELSE IF log[i].id = "NoBlock" THEN << [slot |-> log[i].slot, leader |-> None] >>
    ELSE IF i + 1 > Len(log) \/ ~log[i + 1].ok THEN << >>
    ELSE IF log[i + 1].id = Target THEN << >>
    ELSE << [slot |-> log[i].slot, leader |-> log[i + 1].id] >>

RECURSIVE ChainEntriesFrom(_, _)
ChainEntriesFrom(b, i) ==
    IF i > Len(log) THEN << >>
    ELSE (IF log[i].k = "call" /\ log[i].op = "get_blocks" /\ log[i].b = b
          THEN ChainOutcome(i) ELSE << >>) \o ChainEntriesFrom(b, i + 1)

\* what the checked slots of block b add to the non-produced set, in order
ChainEntries(b) == ChainEntriesFrom(b, 1)

RECURSIVE RowsFrom(_, _)
RowsFrom(b, i) ==
    IF i > Len(log) THEN << >>
    ELSE (IF log[i].k = "print" /\ log[i].op = "row" /\ log[i].b = b
          THEN << [slot |-> log[i].slot, leader |-> log[i].id] >> ELSE << >>)
         \o RowsFrom(b, i + 1)

\* the per-slot rows printed for block b, in order
Rows(b) == RowsFrom(b, 1)

\* C6: a checked slot adds no entry to the non-produced set when a block exists
\* and its leader is the target, one entry with the identity when a block exists
\* and its leader is another identity, and one entry without identity when no
\* block exists or no leader is returned; in a block whose report is printed to
\* its end the per-slot rows are exactly these entries, and a block is reported
\* if and only if it has such an entry.
C6_Classification ==
    /\ NothingAhead
    /\ \A b \in BlockIds :
        LET entries == ChainEntries(b)
            rows == Rows(b)
            reported == \E i \in Lines("block") : log[i].b = b
        IN  /\ (b = bi /\ pc # "block_loop") => non_produced_slots = entries
            /\ ReportDone(b) =>
                  /\ rows = entries
                  /\ reported <=> (entries # << >>)
            /\ ~ReportDone(b) =>
                  /\ rows = << >>
                  /\ reported => (b = bi /\ entries # << >>)

\* C6 witness: a finished run with a slot of each outcome, the report printed
C6_Witness ==
    /\ pc = "done"
    /\ \E i \in Calls("get_slot_leaders") : log[i].id = Target
    /\ \E i \in Lines("row") : log[i].id = "V2"
    /\ \E i \in Lines("row") : log[i].id = None

\* C7: a call that fails is the last thing the run does: nothing is called or
\* printed after it, and the run has ended with an error.
C7_FailureEndsRun ==
    \A i \in 1..Len(log) :
        (log[i].k = "call" /\ ~log[i].ok) => (i = Len(log) /\ pc = "error")

\* C7 witness: the enrichment of a block failed while a later block was waiting
C7_Witness ==
    /\ pc = "error"
    /\ Last(log).op \in {"skip_blame", "latency"}
    /\ bi < Len(blocks)

\* C8: our slots are sorted; blocks hold ascending slots and follow each other in
\* ascending order; everything called or printed for block k comes before
\* anything for block k+1; the slots passed to the block-existence check are
\* strictly increasing over the run.
C8_AscendingOrder ==
    /\ \A i \in 2..Len(our_absolute_slots) : our_absolute_slots[i - 1] < our_absolute_slots[i]
    /\ \A k \in 2..Len(blocks) : Last(blocks[k - 1]) < blocks[k][1]
    /\ LET inLoop(e) == e.b >= 1
           events == SelectSeq(log, inLoop)
       IN  \A i \in 2..Len(events) : events[i - 1].b <= events[i].b
    /\ \A i, j \in Calls("get_blocks") : i < j => log[i].slot < log[j].slot
    /\ \A i, j \in Lines("block") : i < j => log[i].slot < log[j].slot

\* C8 witness: a schedule that lists our slots out of order, two blocks checked
C8_Witness ==
    /\ pc = "done"
    /\ Target \in DOMAIN leader_schedule
    /\ Len(leader_schedule[Target]) >= 2
    /\ leader_schedule[Target][1] > leader_schedule[Target][2]
    /\ \E i, j \in Calls("get_blocks") : log[i].b # log[j].b

\* the leader schedule has been retrieved
HasSchedule == \E i \in Calls("get_leader_schedule") : log[i].ok

\* C10: when the validator is not a key of the retrieved schedule the run ends
\* successfully as "not scheduled": the retrieval is the last call, the only line
\* after it says so, and no block is built, checked or reported.
C10_NotScheduled ==
    (HasSchedule /\ Target \notin DOMAIN leader_schedule) =>
        /\ pc = "not_scheduled"
        /\ Len(log) >= 2
        /\ Last(log).k = "print" /\ Last(log).op = "not_scheduled"
        /\ log[Len(log) - 1].op = "get_leader_schedule"
        /\ blocks = << >>

\* C10 witness: the schedule names only another identity
C10_Witness ==
    /\ pc = "not_scheduled"
    /\ DOMAIN leader_schedule = {"V2"}

\* the absolute slots of the retrieved schedule, from the schedule itself
ScheduledSlots ==
    UNION { { epoch_first_slot + leader_schedule[v][i] : i \in 1..Len(leader_schedule[v]) } :
            v \in DOMAIN leader_schedule }
\* the identity the schedule names for absolute slot s
ScheduledAt(s) ==
    CHOOSE v \in DOMAIN leader_schedule :
        \E i \in 1..Len(leader_schedule[v]) : epoch_first_slot + leader_schedule[v][i] = s

LinesOf(b, ops) == { i \in 1..Len(log) : log[i].k = "print" /\ log[i].b = b /\ log[i].op \in ops }
Gets(b) == { i \in Calls("skip_blame") : log[i].b = b }
Posts(b) == { i \in Calls("latency") : log[i].b = b }

\* C9: the global index holds exactly the absolute slots of the schedule with
\* their identities; for every reported block previous_slot is first_slot - 1,
\* or 0 when first_slot is 0, and next_slot is last_slot + 1; a neighbour the
\* index holds is printed with its identity, a neighbour it lacks is printed as
\* unknown, and the report of a block without previous leader runs to its end.
C9_Neighbours ==
  LET scheduled == ScheduledSlots
  IN
    /\ (HasSchedule /\ Target \in DOMAIN leader_schedule) =>
          /\ DOMAIN slot_validator_map = scheduled
          /\ \A s \in scheduled : slot_validator_map[s] = ScheduledAt(s)
    /\ \A h \in Lines("block") :
          LET b == log[h].b
              first == blocks[b][1]
              p == IF first = 0 THEN 0 ELSE first - 1
              n == Last(blocks[b]) + 1
          IN  /\ first = log[h].slot
              /\ p \notin scheduled =>
                    /\ h < Len(log)
                    /\ log[h + 1].k = "print" /\ log[h + 1].op = "prev_unknown"
                    /\ log[h + 1].slot = p
                    /\ Gets(b) = {}
                    /\ ReportDone(b)
              /\ p \in scheduled =>
                    /\ LinesOf(b, {"prev_unknown"}) = {}
                    /\ \A j \in LinesOf(b, {"prev", "prev_bad"}) :
                          log[j].slot = p /\ log[j].id = ScheduledAt(p)
              /\ \A j \in LinesOf(b, {"next"}) :
                    log[j].slot = n /\ n \in scheduled /\ log[j].id = ScheduledAt(n)
              /\ \A j \in LinesOf(b, {"next_unknown"}) :
                    log[j].slot = n /\ n \notin scheduled
              /\ ReportDone(b) => Cardinality(LinesOf(b, {"next", "next_unknown"})) = 1

\* C9 witness: a finished run that reported a block starting at slot 0, a block
\* without previous leader and a block without next leader
C9_Witness ==
    /\ pc = "done"
    /\ \E h \in Lines("block") : log[h].slot = 0
    /\ Lines("prev_unknown") # {}
    /\ Lines("next_unknown") # {}

\* C4: a block gets at most one skip-blame GET and at most one leaderboard POST;
\* a block processed to its end got the GET if and only if it has a non-produced
\* slot and its previous slot is in the index, whatever earlier blocks fetched;
\* the POST comes after the GET of its block and is issued if and only if the
\* previous leader's identity equals, character for character, an
\* identity_pubkey of the list the GET returned.
C4_EnrichmentCalls ==
    /\ NothingAhead
    /\ \A b \in BlockIds :
        LET gets == Gets(b)
            posts == Posts(b)
            p == Max0(blocks[b][1] - 1)
            wanted == ChainEntries(b) # << >> /\ p \in ScheduledSlots
            onList(i) == /\ log[i].ok
                         /\ log[i].id = "Validators"
                         /\ \E k \in 1..Len(log[i].data) : log[i].data[k] = ScheduledAt(p)
        IN  /\ Cardinality(gets) <= 1
            /\ Cardinality(posts) <= 1
            /\ gets # {} => (b <= bi /\ wanted)
            /\ ReportDone(b) => (gets # {} <=> wanted)
            /\ \A j \in posts : \E i \in gets : i < j /\ onList(i)
            /\ ReportDone(b) => (posts # {} <=> \E i \in gets : onList(i))

\* C4 witness: a finished run in which two blocks with the same previous leader
\* each got a GET, and one of them a POST
C4_Witness ==
    /\ pc = "done"
    /\ \E b1, b2 \in BlockIds :
         /\ b1 < b2
         /\ Gets(b1) # {} /\ Gets(b2) # {}
         /\ ScheduledAt(Max0(blocks[b1][1] - 1)) = ScheduledAt(Max0(blocks[b2][1] - 1))
         /\ Posts(b2) # {}

\* C3: the report of every reported block has a previous-leader line and a
\* next-leader line; the previous-leader line names the identity of the previous
\* slot whenever the index holds it, whatever the enrichment returned, and says
\* unknown otherwise.
C3_Original ==
    \A h \in Lines("block") :
        LET b == log[h].b
            p == Max0(blocks[b][1] - 1)
        IN  ReportDone(b) =>
              /\ LinesOf(b, {"next", "next_unknown"}) # {}
              /\ IF p \in ScheduledSlots
                 THEN \E j \in LinesOf(b, {"prev", "prev_bad"}) : log[j].id = ScheduledAt(p)
                 ELSE LinesOf(b, {"prev_unknown"}) # {}
====
